---- MODULE Spec2Model ----
(***************************************************************************)
(* Dialogue state machine of the finance bot (src/main.py).                *)
(*                                                                         *)
(* Conventions                                                             *)
(*  - A Python dict is a function whose DOMAIN is the set of keys present. *)
(*    d.get(k) is Get(d, k): <<>> for None / missing, <<v>> for a value.   *)
(*    Every read of user_data goes through .get(), so a key holding None   *)
(*    (working_message_id) or {} (tx) is kept as a missing key.            *)
(*  - A text is a sequence of one-character strings.  Non-ASCII literals   *)
(*    of the source are transliterated: "rashod" / "dohod" are the two     *)
(*    transaction types, CYR_KA is the Cyrillic letter ka.                 *)
(*  - Amounts are integers counting hundredths (250000 is 2500.00).        *)
(*  - Conversation states are the NAMES used in the source.  build_app and *)
(*    amount_received use the name ST_PAYMENT_TYPE, the enumeration at     *)
(*    lines 95-110 binds ST_EXP_PAYMENT_TYPE; the model keeps both names   *)
(*    as written, so StateNames does not contain ST_PAYMENT_TYPE.          *)
(*  - One step of Next is one update processed to completion (the          *)
(*    Application processes updates sequentially).  NextDispatch splits    *)
(*    that step into the arrival of the update, its dispatch to a handler  *)
(*    and the handler's completion.                                        *)
(***************************************************************************)
EXTENDS Integers, Sequences, FiniteSets, TLC

\* conv: the ConversationHandler state of each user
\* user_data: context.user_data of each user
\* last: the update processed last and what it did
\* addsForDraft: add requests issued since the user's draft was begun
\* resetPending: /start arrived in the middle of a flow and no flow was begun since
\* active: the users who send updates in this run
\* pending: the Application's update queue (updates fetched, not yet dispatched)
\* running: the handlers in flight, each suspended on an await, with the
\*          conversation state and user_data it was dispatched on
VARIABLES conv, user_data, last, addsForDraft, resetPending, active, pending, running

vars == <<conv, user_data, last, addsForDraft, resetPending, active, pending, running>>

-----------------------------------------------------------------------------
(* Python values *)

None == <<>>

Some(v) == <<v>>

EmptyDict == <<>>

Get(d, k) == IF k \in DOMAIN d THEN <<d[k]>> ELSE <<>>

GetOr(d, k, default) == IF k \in DOMAIN d THEN d[k] ELSE default

Put(d, k, v) == [x \in (DOMAIN d) \cup {k} |-> IF x = k THEN v ELSE d[x]]

Del(d, k) == [x \in (DOMAIN d) \ {k} |-> d[x]]

-----------------------------------------------------------------------------
(* Configuration: the allow-list and the owners *)

OWNER == "owner"

EMPLOYEE == "employee"

STRANGER == "stranger"

Users == {OWNER, EMPLOYEE, STRANGER}

USER_TG_IDS == {OWNER, EMPLOYEE}

OWNER_IDS == {OWNER}

\* mutant of is_allowed: every user who has an id passes
is_allowed_any_user(u) == u \in Users

is_allowed(u) == u \in USER_TG_IDS

\* mutant: the owner check reads the allow-list
is_owner_reads_allow_list(u) == u \in USER_TG_IDS

is_owner(u) == u \in OWNER_IDS

-----------------------------------------------------------------------------
(* Conversation states *)

ST_MENU == "ST_MENU"

ST_ADD_CHOOSE_TYPE == "ST_ADD_CHOOSE_TYPE"

ST_EXP_CATEGORY == "ST_EXP_CATEGORY"

ST_EXP_PAYMENT_TYPE == "ST_EXP_PAYMENT_TYPE"

ST_AMOUNT == "ST_AMOUNT"

ST_COMMENT == "ST_COMMENT"

ST_INC_CATEGORY == "ST_INC_CATEGORY"

ST_ANALYSIS_PERIOD == "ST_ANALYSIS_PERIOD"

ST_ANALYSIS_TYPE == "ST_ANALYSIS_TYPE"

ST_SPECIAL_REPORTS == "ST_SPECIAL_REPORTS"

ST_BALANCE_CHOOSE_TYPE == "ST_BALANCE_CHOOSE_TYPE"

ST_BALANCE_EDIT == "ST_BALANCE_EDIT"

ST_DEBTS_CHOOSE_TYPE == "ST_DEBTS_CHOOSE_TYPE"

ST_DEBTS_EDIT == "ST_DEBTS_EDIT"

\* the names bound by the enumeration
StateNames ==
  {ST_MENU, ST_ADD_CHOOSE_TYPE, ST_EXP_CATEGORY, ST_EXP_PAYMENT_TYPE,
   ST_AMOUNT, ST_COMMENT, ST_INC_CATEGORY, ST_ANALYSIS_PERIOD,
   ST_ANALYSIS_TYPE, ST_SPECIAL_REPORTS, ST_BALANCE_CHOOSE_TYPE,
   ST_BALANCE_EDIT, ST_DEBTS_CHOOSE_TYPE, ST_DEBTS_EDIT}

\* the name amount_received returns and build_app registers
ST_PAYMENT_TYPE == "ST_PAYMENT_TYPE"

\* ConversationHandler.END, also the state of a conversation not yet started
END == "END"

-----------------------------------------------------------------------------
(* Texts and parse_amount *)

CYR_KA == "cyr_ka"

CYR_KA_UPPER == "CYR_KA"

Digits == {"0", "1", "2", "3", "4", "5", "6", "7", "8", "9"}

DigitVal(c) ==
  CASE c = "0" -> 0 [] c = "1" -> 1 [] c = "2" -> 2 [] c = "3" -> 3
    [] c = "4" -> 4 [] c = "5" -> 5 [] c = "6" -> 6 [] c = "7" -> 7
    [] c = "8" -> 8 [] c = "9" -> 9

IsSpace(c) == c \in {" ", "\t", "\n"}

\* str.lower() on the letters the texts of the model use
Lower(c) ==
  CASE c = "K" -> "k"
    [] c = CYR_KA_UPPER -> CYR_KA
    [] c = "A" -> "a"
    [] OTHER -> c

LowerText(s) == [i \in 1..Len(s) |-> Lower(s[i])]

\* re.sub(r"\s+", "", s)
RemoveSpaces(s) == SelectSeq(s, LAMBDA c : ~IsSpace(c))

RECURSIVE LStrip(_)
LStrip(s) == IF s # <<>> /\ IsSpace(Head(s)) THEN LStrip(Tail(s)) ELSE s

RECURSIVE RStrip(_)
RStrip(s) ==
  IF s # <<>> /\ IsSpace(s[Len(s)]) THEN RStrip(SubSeq(s, 1, Len(s) - 1)) ELSE s

\* mutant: the text is not stripped
Strip_omitted(s) == s

\* str.strip()
Strip(s) == RStrip(LStrip(s))

Contains(s, c) == \E i \in 1..Len(s) : s[i] = c

\* str.rfind, 1-based, 0 when absent
RFind(s, c) ==
  IF Contains(s, c)
  THEN CHOOSE i \in 1..Len(s) : s[i] = c /\ \A j \in (i + 1)..Len(s) : s[j] # c
  ELSE 0

Max(a, b) == IF a >= b THEN a ELSE b

\* re.sub(r"[.,]", "", s)
RemoveSeparators(s) == SelectSeq(s, LAMBDA c : c \notin {".", ","})

\* s.replace(",", ".")
CommaToDot(s) == [i \in 1..Len(s) |-> IF s[i] = "," THEN "." ELSE s[i]]

\* re.sub(r"[^0-9.\-]", "", s)
KeepNumeric(s) == SelectSeq(s, LAMBDA c : c \in Digits \cup {".", "-"})

\* mutant: the comma is the decimal separator wherever the dot is
NormalizeSeparators_comma_decimal(s) ==
  IF Contains(s, ",") /\ Contains(s, ".")
  THEN LET dec_pos == RFind(s, ",")
           int_part == RemoveSeparators(SubSeq(s, 1, dec_pos - 1))
           frac_part == RemoveSeparators(SubSeq(s, dec_pos + 1, Len(s)))
       IN  int_part \o <<".">> \o frac_part
  ELSE IF Contains(s, ",") THEN CommaToDot(s)
  ELSE s

\* lines 273-286: the decimal separator
NormalizeSeparators(s) ==
  IF Contains(s, ",") /\ Contains(s, ".")
  THEN LET dec_pos == Max(RFind(s, ","), RFind(s, "."))
           int_part == RemoveSeparators(SubSeq(s, 1, dec_pos - 1))
           frac_part == RemoveSeparators(SubSeq(s, dec_pos + 1, Len(s)))
       IN  int_part \o <<".">> \o frac_part
  ELSE IF Contains(s, ",") THEN CommaToDot(s)
  ELSE s

RECURSIVE DigitsValue(_)
DigitsValue(s) ==
  IF s = <<>> THEN 0
  ELSE 10 * DigitsValue(SubSeq(s, 1, Len(s) - 1)) + DigitVal(s[Len(s)])

RECURSIVE Pow10(_)
Pow10(n) == IF n = 0 THEN 1 ELSE 10 * Pow10(n - 1)

\* float(s) accepts, over the characters KeepNumeric leaves: an optional
\* leading "-", then digits with at most one ".", and at least one digit
FloatSyntaxOk(s) ==
  LET body == IF s # <<>> /\ Head(s) = "-" THEN Tail(s) ELSE s
  IN  /\ ~Contains(body, "-")
      /\ Cardinality({i \in 1..Len(body) : body[i] = "."}) <= 1
      /\ \E i \in 1..Len(body) : body[i] \in Digits

\* round(val, 2) of numerator / denominator, in hundredths; a tie goes to the
\* even neighbour (the texts of the model produce no tie)
RoundHundredths(num, den) ==
  LET q == (num * 100) \div den
      r == (num * 100) % den
  IN  IF 2 * r > den \/ (2 * r = den /\ q % 2 = 1) THEN q + 1 ELSE q

parse_amount(text) ==
  IF text = <<>> THEN None
  ELSE
    LET s0 == LowerText(Strip(text))
        s1 == RemoveSpaces(s0)
        hasK == s1 # <<>> /\ s1[Len(s1)] \in {CYR_KA, "k"}
        mult == IF hasK THEN 1000 ELSE 1
        s2 == IF hasK THEN SubSeq(s1, 1, Len(s1) - 1) ELSE s1
        s == KeepNumeric(NormalizeSeparators(s2))
    IN  IF ~FloatSyntaxOk(s) THEN None
        ELSE
          LET neg == Head(s) = "-"
              body == IF neg THEN Tail(s) ELSE s
              dot == RFind(body, ".")
              int_digits == IF dot = 0 THEN body ELSE SubSeq(body, 1, dot - 1)
              frac_digits == IF dot = 0 THEN <<>> ELSE SubSeq(body, dot + 1, Len(body))
              num == DigitsValue(int_digits \o frac_digits) * mult
              den == Pow10(Len(frac_digits))
          IN  IF neg /\ num > 0 THEN None
              ELSE Some(RoundHundredths(num, den))

-----------------------------------------------------------------------------
(* Bounds and input domains *)

\* gateway calls one update can make (add or set_*, then the Menu reads)
MaxGatewayCalls == 3

\* button indices 0..MaxIndex are pressed
MaxIndex == 1

IndexArgs == {"0", "1", "2", "3"}

IndexOf(a) == CASE a = "0" -> 0 [] a = "1" -> 1 [] a = "2" -> 2 [] a = "3" -> 3

PressedIndexArgs == {a \in IndexArgs : IndexOf(a) <= MaxIndex}

\* free-text messages the users send
T_2500 == <<"2", " ", "5", "0", "0">>

T_blank == <<" ">>

Texts == {T_2500, T_blank}

\* get_categories answers; the ledger may change its lists between two calls
Categories1 ==
  [expenses |-> <<"Tools", "Rent">>,
   incomes |-> <<"Uslugi po BN">>,
   payment_types |-> <<"Cash">>]

Categories2 ==
  [expenses |-> <<"Rent">>,
   incomes |-> <<"Uslugi po BN">>,
   payment_types |-> <<"Cash">>]

CategoryAnswers == {Categories1, Categories2}

\* callback payloads "prefix:arg" as <<prefix, arg>>
MenuData == {<<"menu", a>> : a \in {"add", "analysis", "balance", "debts"}}

BalanceData == {<<"balance", a>> : a \in {"qr"}}

TypeData == {<<"type", a>> : a \in {"expense", "income"}}

BackData ==
  {<<"back", a>> : a \in {"menu", "choose_type", "exp_cat", "analysis_periods",
                          "analysis_type", "debts_type"}}

ExpCatData == {<<"expcat", a>> : a \in PressedIndexArgs}

IncCatData == {<<"inccat", a>> : a \in PressedIndexArgs}

PaymentData == {<<"payment", a>> : a \in PressedIndexArgs}

CommentSkipData == {<<"comment", "skip">>}

PeriodData == {<<"aperiod", a>> : a \in {"today", "special"}}

ATypeData == {<<"atype", a>> : a \in {"income", "expense"}}

SpecialData == {<<"special", a>> : a \in {"compare", "top"}}

DebtsTypeData == {<<"debts_type", a>> : a \in {"owe_me"}}

DebtsEditData == {<<"debts", "edit">>}

CallbackData ==
  MenuData \cup BalanceData \cup TypeData \cup BackData \cup ExpCatData
    \cup IncCatData \cup PaymentData \cup CommentSkipData \cup PeriodData
    \cup ATypeData \cup SpecialData \cup DebtsTypeData \cup DebtsEditData

-----------------------------------------------------------------------------
(* Backend gateway *)

\* mutant of Req: the request is sent under the owner's id
Req_as_owner(cmd, u, params) == [cmd |-> cmd, user_id |-> OWNER, params |-> params]

\* gas_request: the payload with user_id attached
Req(cmd, u, params) == [cmd |-> cmd, user_id |-> u, params |-> params]

\* the calls of one update are numbered 1, 2, ...; call off + i of the update
\* is plan[i]; it raises when its number is in fails
FailAt(plan, fails, off) ==
  IF \E i \in 1..Len(plan) : (off + i) \in fails
  THEN CHOOSE i \in 1..Len(plan) :
         (off + i) \in fails /\ \A j \in 1..(i - 1) : (off + j) \notin fails
  ELSE 0

Raises(plan, fails, off) == FailAt(plan, fails, off) # 0

Issued(plan, fails, off) ==
  IF Raises(plan, fails, off) THEN SubSeq(plan, 1, FailAt(plan, fails, off)) ELSE plan

main_screen_text_owner(u) ==
  <<Req("summary_month", u, EmptyDict),
    Req("get_last_transactions", u, [limit |-> 5])>>

main_screen_text_employee(u) ==
  <<Req("get_last_transactions", u, [limit |-> 10])>>

\* the reads of "if is_owner(user_id): ... else: ..." before the Menu is sent
main_screen(u) ==
  IF is_owner(u) THEN main_screen_text_owner(u) ELSE main_screen_text_employee(u)

get_categories(u) == <<Req("get_categories", u, EmptyDict)>>

-----------------------------------------------------------------------------
(* Session helpers *)

Q_MESSAGE == "q.message.message_id"

NEW_MESSAGE == "msg.message_id"

\* delete_working_message: the deletion is best effort, the key is reset
delete_working_message(ud) == Del(ud, "working_message_id")

tx_of(ud) == GetOr(ud, "tx", EmptyDict)

\* context.user_data["tx"] = tx
set_tx(ud, tx) == IF tx = EmptyDict THEN Del(ud, "tx") ELSE Put(ud, "tx", tx)

\* what one processed update did; shown is the option list of the keyboard of
\* index buttons the handler rendered, if it rendered one
Event(u, handler, data, reqs, raised, menu, reply) ==
  [user |-> u, handler |-> handler, data |-> data, reqs |-> reqs,
   raised |-> raised, menu |-> menu, reply |-> reply, shown |-> <<>>]

\* kb_expense_categories(options), kb_income_categories, kb_payment_types
Showing(ev, options) == [ev EXCEPT !.shown = options]

WriteCmds == {"add", "set_balance", "set_debts"}

HasCmd(reqs, cmds) == \E i \in 1..Len(reqs) : reqs[i].cmd \in cmds

Min(a, b) == IF a <= b THEN a ELSE b

\* states in which an entry, balance or debts flow is in progress
FlowStates ==
  {ST_ADD_CHOOSE_TYPE, ST_EXP_CATEGORY, ST_INC_CATEGORY, ST_AMOUNT,
   ST_PAYMENT_TYPE, ST_COMMENT, ST_BALANCE_EDIT, ST_DEBTS_CHOOSE_TYPE,
   ST_DEBTS_EDIT}

\* build_app: the states that register back_router
BackStates ==
  {ST_ADD_CHOOSE_TYPE, ST_EXP_CATEGORY, ST_INC_CATEGORY, ST_ANALYSIS_PERIOD,
   ST_ANALYSIS_TYPE, ST_SPECIAL_REPORTS, ST_DEBTS_CHOOSE_TYPE}

\* build_app: the states that register a MessageHandler for free text
TextStates == {ST_AMOUNT, ST_COMMENT, ST_BALANCE_EDIT, ST_DEBTS_EDIT}

\* build_app: the callback prefixes (and arguments) each state accepts
CallbackHandled(st, data) ==
  CASE st = ST_MENU ->
         data[1] = "menu" \/ (data[1] = "balance" /\ data[2] \in {"cash", "qr", "bn"})
    [] st = ST_ADD_CHOOSE_TYPE -> data[1] \in {"type", "back"}
    [] st = ST_EXP_CATEGORY -> data[1] \in {"expcat", "back"}
    [] st = ST_INC_CATEGORY -> data[1] \in {"inccat", "back"}
    [] st = ST_PAYMENT_TYPE -> data[1] = "payment"
    [] st = ST_COMMENT -> data = <<"comment", "skip">>
    [] st = ST_ANALYSIS_PERIOD -> data[1] \in {"aperiod", "back"}
    [] st = ST_ANALYSIS_TYPE -> data[1] \in {"atype", "back"}
    [] st = ST_SPECIAL_REPORTS -> data[1] \in {"special", "back"}
    [] st = ST_DEBTS_CHOOSE_TYPE ->
         data[1] \in {"debts_type", "back"} \/ data = <<"debts", "edit">>
    [] OTHER -> FALSE

-----------------------------------------------------------------------------
(* The state after construction *)

NoEvent == Event("none", "init", <<>>, <<>>, FALSE, FALSE, "none")

InitSessions ==
  /\ conv = [u \in Users |-> END]
  /\ user_data = [u \in Users |-> EmptyDict]
  /\ last = NoEvent
  /\ addsForDraft = [u \in Users |-> 0]
  /\ resetPending = [u \in Users |-> FALSE]

\* no update is queued and no handler is in flight
Idle == pending = <<>> /\ running = <<>>

Init == InitSessions /\ active \in {{u} : u \in Users} /\ Idle

\* mutant of Step: user_data is one dict of the module, not context.user_data
Step_shared_user_data(u, st, ud, ev) ==
  /\ conv' = [conv EXCEPT ![u] = st]
  /\ user_data' = [v \in Users |-> ud]
  /\ last' = ev
  /\ UNCHANGED active

\* one update processed: the handler returned state st (or raised, and st is
\* the state before), user_data became ud
Step(u, st, ud, ev) ==
  /\ conv' = [conv EXCEPT ![u] = st]
  /\ user_data' = [user_data EXCEPT ![u] = ud]
  /\ last' = ev
  /\ UNCHANGED active

\* a handler that begins or restarts a flow
BeginsFlow(u) ==
  /\ addsForDraft' = [addsForDraft EXCEPT ![u] = 0]
  /\ resetPending' = [resetPending EXCEPT ![u] = FALSE]

KeepsFlow == UNCHANGED <<addsForDraft, resetPending>>

Deny(u, handler, data) ==
  /\ Step(u, END, user_data[u], Event(u, handler, data, <<>>, FALSE, FALSE, "deny"))
  /\ KeepsFlow

-----------------------------------------------------------------------------
(* Handlers *)

\* mutant: /start is an entry point only while no conversation is open
allow_reentry_off == FALSE

\* line 1205: allow_reentry=True, /start is dispatched to cmd_start in every state
allow_reentry == TRUE

cmd_start(u, fails) ==
  /\ allow_reentry \/ conv[u] = END
  /\ IF ~is_allowed(u) THEN Deny(u, "cmd_start", <<"/start">>)
     ELSE
       LET plan == main_screen(u)
           raised == Raises(plan, fails, 0)
       IN  /\ Step(u, IF raised THEN conv[u] ELSE ST_MENU, EmptyDict,
                   Event(u, "cmd_start", <<"/start">>, Issued(plan, fails, 0),
                         raised, ~raised, IF raised THEN "none" ELSE "menu"))
           /\ addsForDraft' = [addsForDraft EXCEPT ![u] = 0]
           /\ resetPending' = [resetPending EXCEPT ![u] = conv[u] \in FlowStates]

cmd_help(u) ==
  /\ Step(u, conv[u], user_data[u],
          Event(u, "cmd_help", <<"/help">>, <<>>, FALSE, FALSE,
                IF is_allowed(u) THEN "help" ELSE "deny"))
  /\ KeepsFlow

on_menu(u, data, fails) ==
  /\ conv[u] = ST_MENU
  /\ data[1] = "menu"
  /\ IF ~is_allowed(u) THEN Deny(u, "on_menu", data)
     ELSE
       LET ud == user_data[u]
           shown == Put(ud, "working_message_id", Q_MESSAGE)
           ev(reqs, raised, reply) == Event(u, "on_menu", data, reqs, raised, FALSE, reply)
           denied == Step(u, ST_MENU, ud, ev(<<>>, FALSE, "access denied"))
       IN  /\ BeginsFlow(u)
           /\ CASE data[2] = "add" ->
                     Step(u, ST_ADD_CHOOSE_TYPE, shown, ev(<<>>, FALSE, "choose type"))
                [] data[2] = "analysis" ->
                     IF ~is_owner(u) THEN denied
                     ELSE Step(u, ST_ANALYSIS_PERIOD, shown, ev(<<>>, FALSE, "periods"))
                [] data[2] = "balance" ->
                     IF ~is_owner(u) THEN denied
                     ELSE LET plan == <<Req("get_all_balances", u, EmptyDict)>>
                          IN  IF Raises(plan, fails, 0)
                              THEN Step(u, ST_MENU, ud, ev(plan, TRUE, "none"))
                              ELSE Step(u, ST_MENU, shown, ev(plan, FALSE, "balance menu"))
                [] data[2] = "debts" ->
                     IF ~is_owner(u) THEN denied
                     ELSE Step(u, ST_DEBTS_CHOOSE_TYPE, shown, ev(<<>>, FALSE, "debts type"))
                [] OTHER -> Step(u, ST_MENU, ud, ev(<<>>, FALSE, "none"))

back_router(u, data, fails, categories) ==
  /\ conv[u] \in BackStates
  /\ data[1] = "back"
  /\ LET ud == user_data[u]
         ev(reqs, raised, menu, reply) == Event(u, "back_router", data, reqs, raised, menu, reply)
     IN  /\ BeginsFlow(u)
         /\ CASE data[2] = "menu" ->
                   LET plan == main_screen(u)
                       raised == Raises(plan, fails, 0)
                   IN  Step(u, IF raised THEN conv[u] ELSE ST_MENU,
                            delete_working_message(ud),
                            ev(Issued(plan, fails, 0), raised, ~raised,
                               IF raised THEN "none" ELSE "menu"))
              [] data[2] = "choose_type" ->
                   Step(u, ST_ADD_CHOOSE_TYPE, ud, ev(<<>>, FALSE, FALSE, "choose type"))
              [] data[2] = "exp_cat" ->
                   LET plan == get_categories(u)
                       raised == Raises(plan, fails, 0)
                   IN  Step(u, IF raised THEN conv[u] ELSE ST_EXP_CATEGORY, ud,
                            IF raised THEN ev(plan, TRUE, FALSE, "none")
                            ELSE Showing(ev(plan, FALSE, FALSE, "expense categories"),
                                         categories.expenses))
              [] data[2] = "analysis_periods" ->
                   Step(u, ST_ANALYSIS_PERIOD, ud, ev(<<>>, FALSE, FALSE, "periods"))
              [] data[2] = "analysis_type" ->
                   Step(u, ST_ANALYSIS_TYPE, ud, ev(<<>>, FALSE, FALSE, "analysis type"))
              [] data[2] = "debts_type" ->
                   Step(u, ST_DEBTS_CHOOSE_TYPE, ud, ev(<<>>, FALSE, FALSE, "debts type"))
              [] OTHER -> Step(u, ST_MENU, ud, ev(<<>>, FALSE, FALSE, "none"))

choose_type(u, data, fails, categories) ==
  /\ conv[u] = ST_ADD_CHOOSE_TYPE
  /\ data[1] = "type"
  /\ LET ud == set_tx(user_data[u], EmptyDict)
         plan == get_categories(u)
         cached == Put(ud, "categories", categories)
         ev(raised, reply) == Event(u, "choose_type", data, plan, raised, FALSE, reply)
     IN  /\ BeginsFlow(u)
         /\ IF Raises(plan, fails, 0)
            THEN Step(u, conv[u], ud, ev(TRUE, "none"))
            ELSE CASE data[2] = "expense" ->
                        Step(u, ST_EXP_CATEGORY, cached,
                             Showing(ev(FALSE, "expense categories"), categories.expenses))
                   [] data[2] = "income" ->
                        Step(u, ST_INC_CATEGORY, cached,
                             Showing(ev(FALSE, "income categories"), categories.incomes))
                   [] OTHER -> Step(u, ST_ADD_CHOOSE_TYPE, ud, ev(FALSE, "none"))

\* categories[idx] of user_data["categories"][key], None when it raises IndexError
cached_option(ud, key, data) ==
  LET options == GetOr(GetOr(ud, "categories", EmptyDict), key, <<>>)
      idx == IndexOf(data[2])
  IN  IF idx + 1 <= Len(options) THEN Some(options[idx + 1]) ELSE None

expense_category(u, data) ==
  /\ conv[u] = ST_EXP_CATEGORY
  /\ data[1] = "expcat"
  /\ LET ud == user_data[u]
         cat == cached_option(ud, "expenses", data)
         tx == Put(Put(tx_of(ud), "type", "rashod"), "category", cat[1])
         ev(raised, reply) == Event(u, "expense_category", data, <<>>, raised, FALSE, reply)
     IN  /\ BeginsFlow(u)
         /\ IF cat = None THEN Step(u, conv[u], ud, ev(TRUE, "none"))
            ELSE Step(u, ST_AMOUNT, set_tx(ud, tx), ev(FALSE, "amount prompt"))

\* mutant: the income category is not copied to payment_type
income_category_keeps_payment_type(u, data) ==
  /\ conv[u] = ST_INC_CATEGORY
  /\ data[1] = "inccat"
  /\ LET ud == user_data[u]
         cat == cached_option(ud, "incomes", data)
         tx == Put(Put(tx_of(ud), "type", "dohod"), "category", cat[1])
         ev(raised, reply) == Event(u, "income_category", data, <<>>, raised, FALSE, reply)
     IN  /\ BeginsFlow(u)
         /\ IF cat = None THEN Step(u, conv[u], ud, ev(TRUE, "none"))
            ELSE Step(u, ST_AMOUNT, set_tx(ud, tx), ev(FALSE, "amount prompt"))

income_category(u, data) ==
  /\ conv[u] = ST_INC_CATEGORY
  /\ data[1] = "inccat"
  /\ LET ud == user_data[u]
         cat == cached_option(ud, "incomes", data)
         tx == Put(Put(Put(tx_of(ud), "type", "dohod"), "category", cat[1]),
                   "payment_type", cat[1])
         ev(raised, reply) == Event(u, "income_category", data, <<>>, raised, FALSE, reply)
     IN  /\ BeginsFlow(u)
         /\ IF cat = None THEN Step(u, conv[u], ud, ev(TRUE, "none"))
            ELSE Step(u, ST_AMOUNT, set_tx(ud, tx), ev(FALSE, "amount prompt"))

\* mutant of reprompt: the session is cleared before the re-prompt
reprompt_clears_session(ud) == Put(EmptyDict, "working_message_id", NEW_MESSAGE)

\* the re-prompt after a text that is rejected
reprompt(ud) == Put(delete_working_message(ud), "working_message_id", NEW_MESSAGE)

amount_received(u, text) ==
  /\ conv[u] = ST_AMOUNT
  /\ IF ~is_allowed(u) THEN Deny(u, "amount_received", text)
     ELSE
       LET ud == user_data[u]
           amt == parse_amount(text)
           tx == Put(tx_of(ud), "amount", amt[1])
           ev(reply) == Event(u, "amount_received", text, <<>>, FALSE, FALSE, reply)
       IN  /\ KeepsFlow
           /\ IF amt = None THEN Step(u, ST_AMOUNT, reprompt(ud), ev("reprompt"))
              ELSE IF Get(tx, "type") = Some("rashod")
              THEN Step(u, ST_PAYMENT_TYPE, set_tx(ud, tx),
                        Showing(ev("payment types"),
                                GetOr(GetOr(ud, "categories", EmptyDict), "payment_types", <<>>)))
              ELSE Step(u, ST_COMMENT, set_tx(ud, tx), ev("comment prompt"))

payment_type_selected(u, data) ==
  /\ conv[u] = ST_PAYMENT_TYPE
  /\ data[1] = "payment"
  /\ LET ud == user_data[u]
         payment_type == cached_option(ud, "payment_types", data)
         tx == Put(tx_of(ud), "payment_type", payment_type[1])
         ev(raised, reply) ==
           Event(u, "payment_type_selected", data, <<>>, raised, FALSE, reply)
     IN  /\ KeepsFlow
         /\ IF payment_type = None THEN Step(u, conv[u], ud, ev(TRUE, "none"))
            ELSE Step(u, ST_COMMENT, set_tx(ud, tx), ev(FALSE, "comment prompt"))

\* save_and_finish_: the add request, the acknowledgment or the error, the Menu
save_and_finish_(u, ud, fails) ==
  LET ud1 == delete_working_message(ud)
      tx == tx_of(ud1)
      payload == [type |-> Get(tx, "type"),
                  category |-> Get(tx, "category"),
                  amount |-> Get(tx, "amount"),
                  payment_type |-> Get(tx, "payment_type"),
                  comment |-> GetOr(tx, "comment", <<>>)]
      add == <<Req("add", u, payload)>>
      addFailed == Raises(add, fails, 0)
      \* f"{tx.get('amount'):,.2f}" raises TypeError for None
      ackRaises == ~addFailed /\ Get(tx, "amount") = None
      reads == IF ackRaises THEN <<>> ELSE Issued(main_screen(u), fails, 1)
      raised == ackRaises \/ Raises(main_screen(u), fails, 1)
  IN  [ud |-> ud1, reqs |-> add \o reads, raised |-> raised, menu |-> ~raised,
       reply |-> IF addFailed THEN "error" ELSE IF ackRaises THEN "none" ELSE "saved"]

\* the caller of save_and_finish_ returns ST_MENU unless it raised
finish(u, handler, data, ud, fails) ==
  LET r == save_and_finish_(u, ud, fails)
  IN  /\ Step(u, IF r.raised THEN conv[u] ELSE ST_MENU, r.ud,
              Event(u, handler, data, r.reqs, r.raised, r.menu, r.reply))
      /\ addsForDraft' = [addsForDraft EXCEPT ![u] = Min(@ + 1, 2)]
      /\ UNCHANGED resetPending

comment_skip(u, data, fails) ==
  /\ conv[u] = ST_COMMENT
  /\ data = <<"comment", "skip">>
  /\ LET ud == user_data[u]
         tx == Put(tx_of(ud), "comment", <<>>)
     IN  finish(u, "comment_skip", data, set_tx(ud, tx), fails)

comment_received(u, text, fails) ==
  /\ conv[u] = ST_COMMENT
  /\ IF ~is_allowed(u) THEN Deny(u, "comment_received", text)
     ELSE
       LET ud == user_data[u]
           comment_text == Strip(text)
           tx == Put(tx_of(ud), "comment", comment_text)
       IN  IF Get(tx_of(ud), "type") = Some("dohod") /\ comment_text = <<>>
           THEN /\ Step(u, ST_COMMENT, reprompt(ud),
                        Event(u, "comment_received", text, <<>>, FALSE, FALSE, "reprompt"))
                /\ KeepsFlow
           ELSE finish(u, "comment_received", text, set_tx(ud, tx), fails)

analysis_period(u, data) ==
  /\ conv[u] = ST_ANALYSIS_PERIOD
  /\ data[1] = "aperiod"
  /\ LET ud == user_data[u]
         ev(reply) == Event(u, "analysis_period", data, <<>>, FALSE, FALSE, reply)
     IN  /\ KeepsFlow
         /\ IF data[2] = "special"
            THEN Step(u, ST_SPECIAL_REPORTS, ud, ev("special reports"))
            ELSE Step(u, ST_ANALYSIS_TYPE, Put(ud, "analysis_period", data[2]),
                      ev("analysis type"))

\* a report request, the report, then the Menu
report(u, handler, data, plan, fails) ==
  LET calls == plan \o main_screen(u)
      raised == Raises(calls, fails, 0)
  IN  /\ Step(u, IF raised THEN conv[u] ELSE ST_MENU,
              delete_working_message(user_data[u]),
              Event(u, handler, data, Issued(calls, fails, 0), raised, ~raised,
                    IF Raises(plan, fails, 0) THEN "none" ELSE "report"))
      /\ KeepsFlow

analysis_type(u, data, fails) ==
  /\ conv[u] = ST_ANALYSIS_TYPE
  /\ data[1] = "atype"
  /\ LET period == GetOr(user_data[u], "analysis_period", "month")
         cmd == IF data[2] = "income" THEN "analysis_income" ELSE "analysis_expense"
     IN  report(u, "analysis_type", data, <<Req(cmd, u, [period |-> period])>>, fails)

special_reports(u, data, fails) ==
  /\ conv[u] = ST_SPECIAL_REPORTS
  /\ data[1] = "special"
  /\ CASE data[2] = "compare" ->
            report(u, "special_reports", data, <<Req("compare_months", u, EmptyDict)>>, fails)
       [] data[2] = "average" ->
            report(u, "special_reports", data, <<Req("average_check", u, EmptyDict)>>, fails)
       [] data[2] = "top" ->
            report(u, "special_reports", data, <<Req("top_expenses", u, EmptyDict)>>, fails)
       [] OTHER ->
            \* text is unbound: UnboundLocalError
            /\ Step(u, conv[u], delete_working_message(user_data[u]),
                    Event(u, "special_reports", data, <<>>, TRUE, FALSE, "none"))
            /\ KeepsFlow

balance_edit_start(u, data) ==
  /\ conv[u] = ST_MENU
  /\ data[1] = "balance"
  /\ data[2] \in {"cash", "qr", "bn"}
  /\ Step(u, ST_BALANCE_EDIT,
          Put(Put(user_data[u], "balance_payment_type", data[2]),
              "working_message_id", Q_MESSAGE),
          Event(u, "balance_edit_start", data, <<>>, FALSE, FALSE, "amount prompt"))
  /\ BeginsFlow(u)

\* balance_edit_received and debts_edit_received after a valid amount: the set
\* request, the acknowledgment, the owner's Menu
set_and_finish(u, handler, text, req, fails) ==
  LET set_raised == Raises(<<req>>, fails, 0)
      calls == <<req>> \o main_screen_text_owner(u)
      raised == Raises(calls, fails, 0)
  IN  Step(u, IF raised THEN conv[u] ELSE ST_MENU,
           IF set_raised THEN user_data[u] ELSE delete_working_message(user_data[u]),
           Event(u, handler, text, Issued(calls, fails, 0), raised, ~raised,
                 IF set_raised THEN "none" ELSE "saved"))

balance_edit_received(u, text, fails) ==
  /\ conv[u] = ST_BALANCE_EDIT
  /\ IF ~is_allowed(u) THEN Deny(u, "balance_edit_received", text)
     ELSE
       LET ud == user_data[u]
           amt == parse_amount(text)
           payment_type == GetOr(ud, "balance_payment_type", "cash")
       IN  /\ KeepsFlow
           /\ IF amt = None \/ amt[1] < 0
              THEN Step(u, ST_BALANCE_EDIT, reprompt(ud),
                        Event(u, "balance_edit_received", text, <<>>, FALSE, FALSE, "reprompt"))
              ELSE set_and_finish(u, "balance_edit_received", text,
                     Req("set_balance", u, [amount |-> amt, payment_type |-> payment_type]),
                     fails)

debts_choose_type(u, data, fails) ==
  /\ conv[u] = ST_DEBTS_CHOOSE_TYPE
  /\ data[1] = "debts_type"
  /\ LET plan == <<Req("get_debts", u, [debt_type |-> data[2]])>>
         raised == Raises(plan, fails, 0)
     IN  /\ Step(u, ST_DEBTS_CHOOSE_TYPE, Put(user_data[u], "debt_type", data[2]),
                 Event(u, "debts_choose_type", data, plan, raised, FALSE,
                       IF raised THEN "none" ELSE "debts"))
         /\ BeginsFlow(u)

debts_edit_start(u, data) ==
  /\ conv[u] = ST_DEBTS_CHOOSE_TYPE
  /\ data = <<"debts", "edit">>
  /\ Step(u, ST_DEBTS_EDIT, Put(user_data[u], "working_message_id", Q_MESSAGE),
          Event(u, "debts_edit_start", data, <<>>, FALSE, FALSE, "amount prompt"))
  /\ KeepsFlow

debts_edit_received(u, text, fails) ==
  /\ conv[u] = ST_DEBTS_EDIT
  /\ IF ~is_allowed(u) THEN Deny(u, "debts_edit_received", text)
     ELSE
       LET ud == user_data[u]
           amt == parse_amount(text)
           debt_type == GetOr(ud, "debt_type", "i_owe")
       IN  /\ KeepsFlow
           /\ IF amt = None \/ amt[1] < 0
              THEN Step(u, ST_DEBTS_EDIT, reprompt(ud),
                        Event(u, "debts_edit_received", text, <<>>, FALSE, FALSE, "reprompt"))
              ELSE set_and_finish(u, "debts_edit_received", text,
                     Req("set_debts", u, [amount |-> amt, debt_type |-> debt_type]),
                     fails)

\* an update no handler of the current state matches is dropped; of a dropped
\* update only its kind is recorded: <<"back">>, <<"callback">> or <<"text">>
unhandled_callback(u, kind) ==
  /\ {data \in CallbackData :
        /\ (data[1] = "back") <=> (kind = <<"back">>)
        /\ ~CallbackHandled(conv[u], data)} # {}
  /\ Step(u, conv[u], user_data[u],
          Event(u, "unhandled", kind, <<>>, FALSE, FALSE, "none"))
  /\ KeepsFlow

unhandled_text(u) ==
  /\ conv[u] \notin TextStates
  /\ Step(u, conv[u], user_data[u],
          Event(u, "unhandled", <<"text">>, <<>>, FALSE, FALSE, "none"))
  /\ KeepsFlow

-----------------------------------------------------------------------------
(* The specification *)

\* the outcomes of the n gateway calls a handler can make: the calls that raise
Outcomes(n) == SUBSET (1..Min(n, MaxGatewayCalls))

\* an update processed in one step leaves the dispatcher as it is
Atomic == UNCHANGED <<pending, running>>

\* one update of one user, with the outcomes of the gateway calls it makes
StartCommand ==
  \E u \in active :
  \E fails \in Outcomes(Len(main_screen(u))) : cmd_start(u, fails) /\ Atomic

HelpCommand ==
  \E u \in active : cmd_help(u) /\ Atomic

MenuButton ==
  \E u \in active :
  \E data \in MenuData :
  \E fails \in Outcomes(IF data[2] = "balance" THEN 1 ELSE 0) :
    on_menu(u, data, fails) /\ Atomic

BackButton ==
  \E u \in active :
  \E data \in BackData :
  \E fails \in Outcomes(CASE data[2] = "menu" -> Len(main_screen(u))
                          [] data[2] = "exp_cat" -> 1
                          [] OTHER -> 0) :
  \E categories \in (IF data[2] = "exp_cat" THEN CategoryAnswers ELSE {Categories1}) :
    back_router(u, data, fails, categories) /\ Atomic

TypeButton ==
  \E u \in active :
  \E data \in TypeData :
  \E fails \in Outcomes(1) :
  \E categories \in CategoryAnswers :
    choose_type(u, data, fails, categories) /\ Atomic

ExpenseCategoryButton ==
  \E u \in active :
  \E data \in ExpCatData : expense_category(u, data) /\ Atomic

IncomeCategoryButton ==
  \E u \in active :
  \E data \in IncCatData : income_category(u, data) /\ Atomic

AmountText ==
  \E u \in active :
  \E text \in Texts : amount_received(u, text) /\ Atomic

PaymentTypeButton ==
  \E u \in active :
  \E data \in PaymentData : payment_type_selected(u, data) /\ Atomic

SkipButton ==
  \E u \in active :
  \E data \in CommentSkipData :
  \E fails \in Outcomes(1 + Len(main_screen(u))) :
    comment_skip(u, data, fails) /\ Atomic

CommentText ==
  \E u \in active :
  \E text \in Texts :
  \E fails \in Outcomes(1 + Len(main_screen(u))) :
    comment_received(u, text, fails) /\ Atomic

PeriodButton ==
  \E u \in active :
  \E data \in PeriodData : analysis_period(u, data) /\ Atomic

AnalysisTypeButton ==
  \E u \in active :
  \E data \in ATypeData :
  \E fails \in Outcomes(1 + Len(main_screen(u))) :
    analysis_type(u, data, fails) /\ Atomic

SpecialReportButton ==
  \E u \in active :
  \E data \in SpecialData :
  \E fails \in Outcomes(1 + Len(main_screen(u))) :
    special_reports(u, data, fails) /\ Atomic

BalanceButton ==
  \E u \in active :
  \E data \in BalanceData : balance_edit_start(u, data) /\ Atomic

BalanceText ==
  \E u \in active :
  \E text \in Texts :
  \E fails \in Outcomes(IF parse_amount(text) = None THEN 0 ELSE 3) :
    balance_edit_received(u, text, fails) /\ Atomic

DebtsTypeButton ==
  \E u \in active :
  \E data \in DebtsTypeData :
  \E fails \in Outcomes(1) :
    debts_choose_type(u, data, fails) /\ Atomic

DebtsEditButton ==
  \E u \in active :
  \E data \in DebtsEditData : debts_edit_start(u, data) /\ Atomic

DebtsText ==
  \E u \in active :
  \E text \in Texts :
  \E fails \in Outcomes(IF parse_amount(text) = None THEN 0 ELSE 3) :
    debts_edit_received(u, text, fails) /\ Atomic

DroppedButton ==
  \E u \in active :
  \E kind \in {<<"back">>, <<"callback">>} : unhandled_callback(u, kind) /\ Atomic

DroppedText ==
  \E u \in active : unhandled_text(u) /\ Atomic

Next ==
  \/ StartCommand
  \/ HelpCommand
  \/ MenuButton
  \/ BackButton
  \/ TypeButton
  \/ ExpenseCategoryButton
  \/ IncomeCategoryButton
  \/ AmountText
  \/ PaymentTypeButton
  \/ SkipButton
  \/ CommentText
  \/ PeriodButton
  \/ AnalysisTypeButton
  \/ SpecialReportButton
  \/ BalanceButton
  \/ BalanceText
  \/ DebtsTypeButton
  \/ DebtsEditButton
  \/ DebtsText
  \/ DroppedButton
  \/ DroppedText

Spec == Init /\ [][Next]_vars

-----------------------------------------------------------------------------
(* The dispatcher: the update queue and the handlers in flight *)

\* updates waiting in the queue at once
MaxPending == 1

\* ApplicationBuilder().token(BOT_TOKEN).build(): concurrent_updates is not
\* switched on, and no handler is registered with block=False
concurrent_updates_enabled == TRUE

concurrent_updates == FALSE

Update(u, kind, data) == [user |-> u, kind |-> kind, data |-> data]

\* the updates of the income entry flow, from /start to the skip button
FlowUpdates ==
  {<<"command", <<"/start">> >>, <<"callback", <<"menu", "add">> >>,
   <<"callback", <<"type", "income">> >>, <<"callback", <<"inccat", "0">> >>,
   <<"text", T_2500>>, <<"callback", <<"comment", "skip">> >>}

\* the updates each user sends: an owner the whole flow, an employee its start
DispatchUpdates(u) ==
  IF is_owner(u) THEN FlowUpdates
  ELSE {<<"command", <<"/start">> >>, <<"callback", <<"menu", "add">> >>}

\* a callback no handler of the current state matches
dropped_callback(u, data) ==
  /\ ~CallbackHandled(conv[u], data)
  /\ Step(u, conv[u], user_data[u],
          Event(u, "unhandled", IF data[1] = "back" THEN <<"back">> ELSE <<"callback">>,
                <<>>, FALSE, FALSE, "none"))
  /\ KeepsFlow

\* ConversationHandler: the handler that the user's state selects for the update
Handle(u, kind, data, fails, categories) ==
  CASE kind = "command" -> cmd_start(u, fails)
    [] kind = "text" ->
         \/ amount_received(u, data)
         \/ comment_received(u, data, fails)
         \/ balance_edit_received(u, data, fails)
         \/ debts_edit_received(u, data, fails)
         \/ unhandled_text(u)
    [] kind = "callback" ->
         \/ on_menu(u, data, fails)
         \/ back_router(u, data, fails, categories)
         \/ choose_type(u, data, fails, categories)
         \/ expense_category(u, data)
         \/ income_category(u, data)
         \/ payment_type_selected(u, data)
         \/ comment_skip(u, data, fails)
         \/ analysis_period(u, data)
         \/ analysis_type(u, data, fails)
         \/ special_reports(u, data, fails)
         \/ balance_edit_start(u, data)
         \/ debts_choose_type(u, data, fails)
         \/ debts_edit_start(u, data)
         \/ dropped_callback(u, data)

\* the gateway calls the handlers of an update can make
GatewayCalls(upd) ==
  CASE upd.kind = "command" -> Len(main_screen(upd.user))
    [] upd.data = <<"comment", "skip">> -> 1 + Len(main_screen(upd.user))
    [] upd.data[1] = "type" -> 1
    [] OTHER -> 0

RemoveAt(seq, i) == SubSeq(seq, 1, i - 1) \o SubSeq(seq, i + 1, Len(seq))

\* an update of a user arrives and is queued
Arrive ==
  \E u \in active :
  \E upd \in DispatchUpdates(u) :
    /\ Len(pending) < MaxPending
    /\ pending' = Append(pending, Update(u, upd[1], upd[2]))
    /\ UNCHANGED <<conv, user_data, last, addsForDraft, resetPending, active, running>>

\* the Application takes the next update from the queue and starts its
\* handler; without concurrent_updates it does so only after the handler of
\* the update before has returned
Begin ==
  /\ pending # <<>>
  /\ concurrent_updates \/ running = <<>>
  /\ LET upd == Head(pending)
     IN  running' = Append(running, [upd |-> upd, conv |-> conv[upd.user],
                                     user_data |-> user_data[upd.user]])
  /\ pending' = Tail(pending)
  /\ UNCHANGED <<conv, user_data, last, addsForDraft, resetPending, active>>

\* a handler in flight gets the answers of its gateway calls and returns
Complete ==
  \E i \in 1..Len(running) :
  \E fails \in Outcomes(GatewayCalls(running[i].upd)) :
    /\ Handle(running[i].upd.user, running[i].upd.kind, running[i].upd.data,
              fails, Categories1)
    /\ running' = RemoveAt(running, i)
    /\ UNCHANGED pending

InitDispatch == InitSessions /\ active = USER_TG_IDS /\ Idle

NextDispatch ==
  \/ Arrive
  \/ Begin
  \/ Complete

SpecDispatch == InitDispatch /\ [][NextDispatch]_vars

-----------------------------------------------------------------------------
(* Properties *)

Employees == USER_TG_IDS \ OWNER_IDS

draft(u) == tx_of(user_data[u])

\* a finalize event: a comment text was accepted, or the skip button pressed,
\* and save_and_finish_ ran
Finalize(e) == e.handler \in {"comment_skip", "comment_received"} /\ HasCmd(e.reqs, {"add"})

AddRequests(e) == {i \in 1..Len(e.reqs) : e.reqs[i].cmd = "add"}

IsBlank(text) == \A i \in 1..Len(text) : IsSpace(text[i])

\* C1 (as claimed): after any finalize event, whether the add request succeeded
\* or failed, the user's draft is empty and the conversation is in Menu.
C1_FinalizeLeavesEmptyDraftInMenu ==
  Finalize(last) => draft(last.user) = EmptyDict /\ conv[last.user] = ST_MENU

\* C2 (as claimed): a completed entry flow issues exactly one add request for
\* its draft, and the Menu is rendered after it; the request is not repeated
\* for the same draft.
C2_ExactlyOneAddThenMenu ==
  Finalize(last) =>
    /\ Cardinality(AddRequests(last)) = 1
    /\ addsForDraft[last.user] = 1
    /\ last.menu
    /\ conv[last.user] = ST_MENU

\* C3 (as claimed): every add request ever issued carries a type, a category,
\* an amount and a payment_type that are not null.
C3_AddCarriesEveryRequiredField ==
  \A i \in AddRequests(last) :
    LET p == last.reqs[i].params
    IN  p.type # None /\ p.category # None /\ p.amount # None /\ p.payment_type # None

\* C4 (as claimed): no add request of an income record carries an empty
\* comment, whether the comment came as text or from the skip button.
C4_IncomeAddHasComment ==
  \A i \in AddRequests(last) :
    last.reqs[i].params.type = Some("dohod") => last.reqs[i].params.comment # <<>>

\* C5: a whitespace-only comment text received in ST_COMMENT while the draft is
\* an income keeps the conversation in ST_COMMENT, leaves the draft (and so its
\* comment) as it was, issues no gateway request and re-prompts.
C5_BlankIncomeCommentReprompts ==
  [][\A u \in Users :
       ( /\ conv[u] = ST_COMMENT
         /\ Get(draft(u), "type") = Some("dohod")
         /\ last'.user = u
         /\ last'.handler = "comment_received"
         /\ IsBlank(last'.data) )
       => /\ conv'[u] = ST_COMMENT
          /\ tx_of(user_data'[u]) = draft(u)
          /\ (Get(draft(u), "comment") = None => Get(tx_of(user_data'[u]), "comment") = None)
          /\ last'.reqs = <<>>
          /\ ~last'.raised
          /\ last'.reply = "reprompt"
          /\ Get(user_data'[u], "working_message_id") = Some(NEW_MESSAGE)]_vars

C5_Witness ==
  /\ last.handler = "comment_received"
  /\ IsBlank(last.data)
  /\ last.reply = "reprompt"
  /\ conv[last.user] = ST_COMMENT
  /\ Get(draft(last.user), "type") = Some("dohod")
  /\ Get(draft(last.user), "comment") = None

OwnerOnlyMenu == {"analysis", "balance", "debts"}

\* C6: an employee who presses an owner-only Menu button (analysis, balance,
\* debts) in ST_MENU stays in ST_MENU, user_data is untouched, no gateway
\* request is issued and the answer is the access-denied notice.
C6_EmployeeOwnerOnlyMenuDenied ==
  [][\A u \in Employees :
       ( /\ conv[u] = ST_MENU
         /\ last'.user = u
         /\ last'.handler \in {"on_menu", "unhandled"}
         /\ last'.data \in {<<"menu", a>> : a \in OwnerOnlyMenu} )
       => /\ last'.handler = "on_menu"
          /\ conv'[u] = ST_MENU
          /\ user_data'[u] = user_data[u]
          /\ u \in Employees
          /\ last'.reqs = <<>>
          /\ ~last'.raised
          /\ last'.reply = "access denied"]_vars

C6_Witness ==
  /\ last.user \in Employees
  /\ last.handler = "on_menu"
  /\ last.data = <<"menu", "balance">>
  /\ last.reply = "access denied"
  /\ conv[last.user] = ST_MENU

OwnerOnlyStates ==
  {ST_ANALYSIS_PERIOD, ST_ANALYSIS_TYPE, ST_SPECIAL_REPORTS, ST_BALANCE_EDIT,
   ST_DEBTS_CHOOSE_TYPE, ST_DEBTS_EDIT}

OwnerOnlyCmds ==
  {"set_balance", "set_debts", "get_debts", "get_all_balances", "analysis_income",
   "analysis_expense", "compare_months", "average_check", "top_expenses"}

\* C7 (as claimed): an employee never reaches an analysis, balance or debts
\* state and never issues a balance, debts or report request.
C7_EmployeeRestrictedToEntry ==
  \A u \in Employees :
    /\ conv[u] \notin OwnerOnlyStates
    /\ last.user = u => ~HasCmd(last.reqs, OwnerOnlyCmds)

\* C8 (as claimed): /start from an allowed user, in any state and whatever the
\* outcome of the Menu reads, clears user_data and leaves the conversation in
\* ST_MENU.
C8_ResetRestartsAtMenu ==
  (last.handler = "cmd_start" /\ is_allowed(last.user)) =>
    user_data[last.user] = EmptyDict /\ conv[last.user] = ST_MENU

\* C9 (as claimed): once /start arrived in the middle of an entry, balance or
\* debts flow, no add, set_balance or set_debts request is issued until the
\* user begins a flow again.
C9_NoWriteForAbandonedFlow ==
  [][\A u \in Users :
       (resetPending[u] /\ last'.user = u) => ~HasCmd(last'.reqs, WriteCmds)]_vars

\* C10 (as claimed): in every state of a started conversation a back button
\* press is handled; none is dropped.
C10_BackAlwaysHandled ==
  ~(last.handler = "unhandled" /\ last.data = <<"back">> /\ conv[last.user] # END)

\* the back edges of the dialogue graph: <<state, predecessor>>
BackEdges ==
  {<<ST_EXP_CATEGORY, ST_ADD_CHOOSE_TYPE>>, <<ST_INC_CATEGORY, ST_ADD_CHOOSE_TYPE>>,
   <<ST_ADD_CHOOSE_TYPE, ST_MENU>>, <<ST_ANALYSIS_PERIOD, ST_MENU>>,
   <<ST_ANALYSIS_TYPE, ST_ANALYSIS_PERIOD>>, <<ST_SPECIAL_REPORTS, ST_ANALYSIS_PERIOD>>,
   <<ST_DEBTS_CHOOSE_TYPE, ST_MENU>>, <<ST_DEBTS_CHOOSE_TYPE, ST_DEBTS_CHOOSE_TYPE>>}

\* C11 (as claimed): a back press that back_router accepts in state S, and that
\* does not raise, moves the conversation along a back edge of S only, whatever
\* the payload of the press.
C11_BackMovesToPredecessor ==
  [][\A u \in Users :
       (last'.user = u /\ last'.handler = "back_router" /\ ~last'.raised)
       => <<conv[u], conv'[u]>> \in BackEdges]_vars

\* the forward edges of the dialogue graph, in the names of the enumeration
GraphEdges ==
  {<<ST_MENU, ST_ADD_CHOOSE_TYPE>>, <<ST_MENU, ST_ANALYSIS_PERIOD>>,
   <<ST_MENU, ST_BALANCE_CHOOSE_TYPE>>, <<ST_MENU, ST_DEBTS_CHOOSE_TYPE>>,
   <<ST_ADD_CHOOSE_TYPE, ST_EXP_CATEGORY>>, <<ST_ADD_CHOOSE_TYPE, ST_INC_CATEGORY>>,
   <<ST_EXP_CATEGORY, ST_AMOUNT>>, <<ST_INC_CATEGORY, ST_AMOUNT>>,
   <<ST_AMOUNT, ST_EXP_PAYMENT_TYPE>>, <<ST_AMOUNT, ST_COMMENT>>,
   <<ST_EXP_PAYMENT_TYPE, ST_COMMENT>>, <<ST_COMMENT, ST_MENU>>,
   <<ST_ANALYSIS_PERIOD, ST_ANALYSIS_TYPE>>, <<ST_ANALYSIS_PERIOD, ST_SPECIAL_REPORTS>>,
   <<ST_ANALYSIS_TYPE, ST_MENU>>, <<ST_SPECIAL_REPORTS, ST_MENU>>,
   <<ST_BALANCE_CHOOSE_TYPE, ST_BALANCE_EDIT>>, <<ST_BALANCE_EDIT, ST_MENU>>,
   <<ST_DEBTS_CHOOSE_TYPE, ST_DEBTS_CHOOSE_TYPE>>, <<ST_DEBTS_CHOOSE_TYPE, ST_DEBTS_EDIT>>,
   <<ST_DEBTS_EDIT, ST_MENU>>}

\* C12 (as claimed): the conversation state is always one of the enumerated
\* states (or not started); every change of it follows a forward edge, a back
\* edge or a reset to Menu; an owner's balance press in Menu that does not raise
\* moves to ST_BALANCE_CHOOSE_TYPE; ST_BALANCE_EDIT is entered from
\* ST_BALANCE_CHOOSE_TYPE only.
C12_StateFollowsGraph ==
  [][\A u \in Users :
       /\ conv'[u] \in StateNames \cup {END}
       /\ conv'[u] # conv[u] =>
            \/ <<conv[u], conv'[u]>> \in GraphEdges \cup BackEdges
            \/ last'.handler = "cmd_start" /\ conv'[u] = ST_MENU
       /\ ( /\ conv[u] = ST_MENU /\ is_owner(u) /\ last'.user = u
            /\ last'.handler = "on_menu" /\ last'.data = <<"menu", "balance">>
            /\ ~last'.raised )
          => conv'[u] = ST_BALANCE_CHOOSE_TYPE
       /\ (conv'[u] = ST_BALANCE_EDIT /\ conv[u] # ST_BALANCE_EDIT)
          => conv[u] = ST_BALANCE_CHOOSE_TYPE]_vars

\* C13 (as claimed): a text that parse_amount accepts, received in ST_AMOUNT from
\* an allowed user, is stored as the draft's amount; the conversation moves to
\* the enumerated payment-type state ST_EXP_PAYMENT_TYPE, where a payment
\* selection is accepted, when the draft is an expense, and to ST_COMMENT when
\* it is an income.
C13_ValidAmountAdvances ==
  [][\A u \in USER_TG_IDS :
       ( /\ conv[u] = ST_AMOUNT
         /\ last'.user = u
         /\ last'.handler = "amount_received"
         /\ parse_amount(last'.data) # None )
       => /\ Get(tx_of(user_data'[u]), "amount") = parse_amount(last'.data)
          /\ Get(draft(u), "type") = Some("rashod") =>
               /\ conv'[u] = ST_EXP_PAYMENT_TYPE
               /\ CallbackHandled(conv'[u], <<"payment", "0">>)
          /\ Get(draft(u), "type") = Some("dohod") => conv'[u] = ST_COMMENT]_vars

AmountHandlers ==
  [ST_AMOUNT |-> "amount_received", ST_BALANCE_EDIT |-> "balance_edit_received",
   ST_DEBTS_EDIT |-> "debts_edit_received"]

\* C14: in ST_AMOUNT, ST_BALANCE_EDIT and ST_DEBTS_EDIT a text that parse_amount
\* rejects keeps the conversation state, changes nothing of user_data but the
\* working message (so no amount is set or changed), issues no gateway request
\* and re-prompts; the amount handler changes the state only on a text that
\* parse_amount accepts.
C14_RejectedAmountReprompts ==
  [][\A u \in USER_TG_IDS :
       ( /\ conv[u] \in DOMAIN AmountHandlers
         /\ last'.user = u
         /\ last'.handler = AmountHandlers[conv[u]] )
       => /\ parse_amount(last'.data) = None =>
               /\ conv'[u] = conv[u]
               /\ Get(tx_of(user_data'[u]), "amount") = Get(draft(u), "amount")
               /\ delete_working_message(user_data'[u]) = delete_working_message(user_data[u])
               /\ Get(user_data'[u], "working_message_id") = Some(NEW_MESSAGE)
               /\ last'.reqs = <<>>
               /\ ~last'.raised
               /\ last'.reply = "reprompt"
          /\ conv'[u] # conv[u] => parse_amount(last'.data) # None]_vars

C14_Witness ==
  /\ last.handler = "amount_received"
  /\ parse_amount(last.data) = None
  /\ last.reply = "reprompt"
  /\ conv[last.user] = ST_AMOUNT
  /\ Get(draft(last.user), "type") = Some("rashod")
  /\ Get(draft(last.user), "amount") = None

\* the handlers that send add, set_balance or set_debts
WriteHandlers ==
  {"comment_skip", "comment_received", "balance_edit_received", "debts_edit_received"}

\* C15 (as claimed): when a gateway call raises while a handler that writes
\* nothing is processing an update (the Menu reads of /start and back, the
\* category list, the balances, the debts, a report), the user's conversation
\* state and user_data after the update equal those before it.
C15_FailedReadLeavesSession ==
  [][\A u \in Users :
       ( /\ last'.user = u
         /\ last'.handler \notin WriteHandlers
         /\ last'.reqs # <<>>
         /\ last'.raised )
       => conv'[u] = conv[u] /\ user_data'[u] = user_data[u]]_vars

\* C16 (as claimed): every finalize event shows the acknowledgment or, when the
\* add request failed, the error, then renders the Menu, and leaves the
\* conversation in ST_MENU, whatever the gateway answers.
C16_FinalizeAlwaysRendersMenu ==
  Finalize(last) =>
    /\ last.reply \in {"saved", "error"}
    /\ last.menu
    /\ ~last.raised
    /\ conv[last.user] = ST_MENU

\* C17: for a user who is not in USER_TG_IDS the conversation is never started,
\* user_data stays empty, and no gateway request is issued for an update of
\* that user or with that user's id.
C17_StrangerHasNoSession ==
  \A u \in Users \ USER_TG_IDS :
    /\ conv[u] = END
    /\ user_data[u] = EmptyDict
    /\ last.user = u => last.reqs = <<>>
    /\ \A i \in 1..Len(last.reqs) : last.reqs[i].user_id # u

C17_Witness ==
  /\ last.user \notin USER_TG_IDS
  /\ last.handler = "cmd_start"
  /\ last.reply = "deny"
  /\ conv[last.user] = END
  /\ user_data[last.user] = EmptyDict

C19_SessionsIsolated ==
  [][\A b \in Users :
       b # last'.user => conv'[b] = conv[b] /\ user_data'[b] = user_data[b]]_vars

\* a user's type choice was processed while another user has a session of
\* their own in progress
C19_Witness ==
  /\ last.handler = "choose_type"
  /\ ~last.raised
  /\ "categories" \in DOMAIN user_data[last.user]
  /\ \E b \in Users \ {last.user} :
       /\ conv[b] = ST_ADD_CHOOSE_TYPE
       /\ Get(user_data[b], "working_message_id") = Some(Q_MESSAGE)
       /\ "categories" \notin DOMAIN user_data[b]

\* C20: every gateway request issued while an update of user u is processed
\* carries user_id = u, whatever the command, the Menu reads after a finalize
\* included.
C20_RequestsCarryActingUser ==
  \A i \in 1..Len(last.reqs) : last.reqs[i].user_id = last.user

\* an employee's finalize: the add request and the Menu read that follows it
C20_Witness ==
  /\ Finalize(last)
  /\ last.user \in Employees
  /\ Len(last.reqs) = 2
  /\ last.reqs[2].cmd = "get_last_transactions"
  /\ last.menu

-----------------------------------------------------------------------------
(* gas_request: what the caller gets for each response of the ledger *)

GatewayCmds ==
  {"summary_month", "get_last_transactions", "get_categories", "add",
   "analysis_income", "analysis_expense", "compare_months", "average_check",
   "top_expenses", "get_all_balances", "set_balance", "get_debts", "set_debts"}

\* the JSON objects the ledger answers with: each key present or not; the
\* JSON booleans are written "true" and "false"
Bodies ==
  {b \in UNION {[D -> {"true", "false", "payload", "message"}] :
                  D \in SUBSET {"ok", "data", "error"}} :
     /\ "ok" \in DOMAIN b => b["ok"] \in {"true", "false"}
     /\ "data" \in DOMAIN b => b["data"] = "payload"
     /\ "error" \in DOMAIN b => b["error"] = "message"}

\* a response: a body that resp.json() parses, or one it does not
Responses ==
  {[json |-> TRUE, body |-> b] : b \in Bodies} \cup {[json |-> FALSE, body |-> EmptyDict]}

\* the lines of gas_request after the response arrived: the value returned or
\* the exception raised
gas_request(resp) ==
  IF ~resp.json THEN [raised |-> TRUE, value |-> "RuntimeError: non-JSON"]
  ELSE IF Get(resp.body, "ok") # Some("true")
  THEN [raised |-> TRUE,
        value |-> IF "error" \in DOMAIN resp.body THEN "RuntimeError: message"
                  ELSE "RuntimeError: GAS error"]
  ELSE IF "data" \notin DOMAIN resp.body
  THEN [raised |-> TRUE, value |-> "KeyError: data"]
  ELSE [raised |-> FALSE, value |-> resp.body["data"]]

\* one gateway call of a user, answered by the ledger
GatewayCall ==
  \E u \in active :
  \E cmd \in GatewayCmds :
  \E resp \in Responses :
    LET r == gas_request(resp)
    IN  /\ last' = Event(u, "gas_request", resp, <<Req(cmd, u, EmptyDict)>>,
                         r.raised, FALSE, r.value)
        /\ UNCHANGED <<conv, user_data, addsForDraft, resetPending, active,
                       pending, running>>

InitGateway == InitSessions /\ active = USER_TG_IDS /\ Idle

NextGateway == GatewayCall

SpecGateway == InitGateway /\ [][NextGateway]_vars

\* C21 (as claimed): a gateway call returns a result exactly when the response
\* is a JSON object whose ok flag is true, with or without a data field, and
\* raises exactly when the flag is not true or the body is not JSON.
C21_SuccessIffOkFlag ==
  last.handler = "gas_request" =>
    (~last.raised <=> (last.data.json /\ Get(last.data.body, "ok") = Some("true")))

\* the user_data keys of the analysis, balance and debts flows
PendingContextKeys == {"analysis_period", "balance_payment_type", "debt_type"}

\* C22 (as claimed): in every reachable state no user has both a populated
\* draft (tx) and a populated analysis period, balance type or debt type.
C22_DraftExcludesPendingContext ==
  \A u \in Users :
    ~(draft(u) # EmptyDict /\ DOMAIN user_data[u] \cap PendingContextKeys # {})

\* the handlers that resolve a pressed index, and the draft field they fill
IndexHandlers ==
  [expense_category |-> "category", income_category |-> "category",
   payment_type_selected |-> "payment_type"]

-----------------------------------------------------------------------------
(* Deletions of transient messages, by the answer of the Bot API *)

\* mutant of swallowed: the exception is raised again
swallowed_reraised(raised) == raised

\* try: ... except Exception: pass (or logger.debug): what leaves the try
\* statement when its body raised or not
swallowed(raised) == FALSE

\* delete_working_message when context.bot.delete_message succeeds (ok) or
\* raises: the user_data it leaves and whether an exception leaves it
delete_working_message_outcome(ud, ok) ==
  LET msg_id == Get(ud, "working_message_id")
  IN  [ud |-> Del(ud, "working_message_id"),
       raised |-> IF msg_id # None THEN swallowed(~ok) ELSE FALSE]

\* try: await update.message.delete() except Exception: pass
delete_user_message_outcome(ok) == [raised |-> swallowed(~ok)]

-----------------------------------------------------------------------------
(* The amount texts: the three amount prompts fed with every short text *)

\* length of the enumerated amount texts
MaxTextLen == 3

\* the characters of the enumerated texts (no digit 5: round(val, 2) then has
\* no tie, where the binary float decides)
AmountChars == {"0", "2", "7", " ", ",", ".", "k", "-", "a"}

\* the examples of the amount prompt
T_2500_plain == <<"2", "5", "0", "0">>

T_2500_50 == <<"2", "5", "0", "0", ",", "5", "0">>

T_2_500_75 == <<"2", ".", "5", "0", "0", ",", "7", "5">>

T_2k == <<"2", "k">>

ExampleTexts == {T_2500_plain, T_2500, T_2500_50, T_2_500_75, T_2k}

AmountTexts ==
  UNION {[1..n -> AmountChars] : n \in 0..MaxTextLen} \cup ExampleTexts

\* the owner sends one amount text, drawn when the run starts and waiting in
\* "pending" until it is typed; before it the owner walks to one of the three
\* amount prompts (income entry, balance, debts) with a responsive gateway;
\* once typed it stays in "pending" marked "typed"
Typing == pending # <<>> /\ UNCHANGED <<pending, running>>

AmountsStart ==
  \E u \in active : cmd_start(u, {}) /\ Typing

AmountsMenu ==
  \E u \in active :
  \E data \in {<<"menu", "add">>, <<"menu", "debts">>} : on_menu(u, data, {}) /\ Typing

AmountsType ==
  \E u \in active : choose_type(u, <<"type", "income">>, {}, Categories1) /\ Typing

AmountsCategory ==
  \E u \in active : income_category(u, <<"inccat", "0">>) /\ Typing

AmountsBalance ==
  \E u \in active : balance_edit_start(u, <<"balance", "qr">>) /\ Typing

AmountsDebts ==
  \E u \in active : debts_edit_start(u, <<"debts", "edit">>) /\ Typing

\* the text arrives at the amount prompt the user is at
AmountsText ==
  \E u \in active :
  \E fails \in Outcomes(1) :
    /\ pending # <<>>
    /\ LET text == Head(pending).data
       IN  \/ amount_received(u, text)
           \/ balance_edit_received(u, text, fails)
           \/ debts_edit_received(u, text, fails)
    /\ Head(pending).kind = "text"
    /\ pending' = <<Update(Head(pending).user, "typed", Head(pending).data)>>
    /\ UNCHANGED running

\* the comment prompt that follows an accepted entry amount is skipped
AmountsSkip ==
  \E u \in active :
  \E fails \in Outcomes(1) :
    /\ Typing
    /\ Head(pending).kind = "typed"
    /\ comment_skip(u, <<"comment", "skip">>, fails)

InitAmounts ==
  /\ InitSessions
  /\ active = OWNER_IDS
  /\ pending \in {<<Update(OWNER, "text", text)>> : text \in AmountTexts}
  /\ running = <<>>

NextAmounts ==
  \/ AmountsStart
  \/ AmountsMenu
  \/ AmountsType
  \/ AmountsCategory
  \/ AmountsBalance
  \/ AmountsDebts
  \/ AmountsText
  \/ AmountsSkip

SpecAmounts == InitAmounts /\ [][NextAmounts]_vars

-----------------------------------------------------------------------------
(* C25 *)

\* the amounts the last update sent in add, set_balance and set_debts requests
SentAmounts ==
  {last.reqs[i].params.amount : i \in {j \in 1..Len(last.reqs) : last.reqs[j].cmd \in WriteCmds}}

\* the characters that are left of a text once everything but digits and the
\* minus sign is discarded
SignAndDigits(text) == SelectSeq(text, LAMBDA c : c \in Digits \cup {"-"})

NoNumericValue(text) == \A i \in 1..Len(text) : text[i] \notin Digits

NegativeValue(text) ==
  LET s == SignAndDigits(text)
  IN  /\ s # <<>>
      /\ Head(s) = "-"
      /\ \A i \in 2..Len(s) : s[i] # "-"
      /\ \E i \in 2..Len(s) : s[i] \notin {"0", "-"}

-----------------------------------------------------------------------------
(* C26 *)

\* the texts the rules speak of: digits, spaces, "," and ".", and a "k" only as
\* the last character before trailing spaces; of the texts with "." alone the
\* rules cover those with one "."
InRuleDomain(text) ==
  /\ \A i \in 1..Len(text) :
       \/ text[i] \in Digits \cup {" ", ",", "."}
       \/ text[i] = "k" /\ \A j \in (i + 1)..Len(text) : text[j] = " "
  /\ Contains(text, ",") \/ Cardinality({i \in 1..Len(text) : text[i] = "."}) <= 1

\* the value the rules give, in hundredths: None when the text has no digit or
\* more than one decimal separator
RuleAmount(text) ==
  LET t == SelectSeq(text, LAMBDA c : c # " ")
      k == t # <<>> /\ t[Len(t)] = "k"
      body == IF k THEN SubSeq(t, 1, Len(t) - 1) ELSE t
      commas == {i \in 1..Len(body) : body[i] = ","}
      dots == {i \in 1..Len(body) : body[i] = "."}
      seps == commas \cup dots
      decimal == IF commas # {} /\ dots # {}
                 THEN {CHOOSE i \in seps : \A j \in seps : j <= i}
                 ELSE seps
      pos == IF decimal = {} THEN Len(body) + 1 ELSE CHOOSE i \in decimal : TRUE
      whole == SelectSeq(SubSeq(body, 1, pos - 1), LAMBDA c : c \in Digits)
      frac == SelectSeq(SubSeq(body, pos + 1, Len(body)), LAMBDA c : c \in Digits)
  IN  IF Cardinality(decimal) > 1 \/ whole \o frac = <<>> THEN None
      ELSE Some(RoundHundredths(DigitsValue(whole \o frac) * (IF k THEN 1000 ELSE 1),
                                Pow10(Len(frac))))

\* the values of the examples, in hundredths
ExampleAmount(text) ==
  CASE text = T_2500_plain -> 250000
    [] text = T_2500 -> 250000
    [] text = T_2500_50 -> 250050
    [] text = T_2_500_75 -> 250075
    [] text = T_2k -> 200000

\* C26: for a text over digits, spaces, "," and "." with an optional trailing k,
\* an amount prompt accepts the text exactly when the rules give it a value
\* (spaces removed, trailing k times 1000, the rightmost of "," and "." the
\* decimal separator when both occur and the others dropped, "," the decimal
\* separator when it occurs alone), and the amount it stores or sends is that
\* value; the entry prompt stores 2500 for "2500" and "2 500", 2500.50 for
\* "2500,50", 2500.75 for "2.500,75" and 2000 for "2k"
C26_ParseFollowsSeparatorRules ==
  /\ (last.handler \in {"amount_received", "balance_edit_received", "debts_edit_received"}
       /\ last.reply # "deny" /\ InRuleDomain(last.data))
       => /\ parse_amount(last.data) = RuleAmount(last.data)
          /\ last.reply = "reprompt" <=> RuleAmount(last.data) = None
          /\ (last.handler = "amount_received" /\ RuleAmount(last.data) # None)
               => Get(draft(last.user), "amount") = RuleAmount(last.data)
          /\ (last.handler # "amount_received" /\ RuleAmount(last.data) # None)
               => SentAmounts = {RuleAmount(last.data)}
  /\ (last.handler = "amount_received" /\ last.data \in ExampleTexts)
       => Get(draft(last.user), "amount") = Some(ExampleAmount(last.data))

\* the entry prompt has stored 2500.75 for "2.500,75"
C26_Witness ==
  /\ last.handler = "amount_received"
  /\ last.data = T_2_500_75
  /\ Get(draft(last.user), "amount") = Some(250075)

-----------------------------------------------------------------------------
(* Report rendering: analysis_type and special_reports on the gateway's data *)

\* number of months in a compare_months answer
MaxMonths == 2

\* the numbers the gateway answers with (0 is also the default of res.get)
ReportValues == {-1, 0, 1, 3}

ReportPaymentTypes == {"Cash", "QR"}

MonthData == [incomes : ReportValues, expenses : ReportValues]

MonthLists == UNION {[1..n -> MonthData] : n \in 0..MaxMonths}

\* the answers to analysis_income and to compare_months
IncomeResponses ==
  [total : ReportValues, by_type : [ReportPaymentTypes -> ReportValues], months : {<<>>}]

CompareResponses ==
  [total : {0}, by_type : {[t \in ReportPaymentTypes |-> 0]}, months : MonthLists]

\* a / b; ZeroDivisionError when b = 0
Div(a, b) == [num |-> a, den |-> b]

ZeroDivision(d) == d.den = 0

\* mutant: the shares are computed for a total of zero as well
shares_guard_nonnegative(total) == total >= 0

\* line 844: if total > 0
shares_guard(total) == total > 0

\* lines 910 and 919: if prev_incomes > 0 / if prev_expenses > 0
delta_guard(prev) == prev > 0

\* lines 839-851: percentage = (amount / total) * 100 for every payment type,
\* or the no-data placeholder
income_report(res) ==
  IF shares_guard(res.total)
  THEN [placeholder |-> FALSE,
        shares |-> [t \in DOMAIN res.by_type |-> Div(res.by_type[t], res.total)],
        deltas |-> <<>>]
  ELSE [placeholder |-> TRUE, shares |-> <<>>, deltas |-> <<>>]

\* lines 908-912 and 917-921: change = ((value - prev) / prev) * 100
delta(months, i, field) ==
  IF i > 1 /\ delta_guard(months[i - 1][field])
  THEN Some(Div(months[i][field] - months[i - 1][field], months[i - 1][field]))
  ELSE None

\* lines 899-923
compare_report(res) ==
  [placeholder |-> FALSE,
   shares |-> <<>>,
   deltas |-> [i \in 1..Len(res.months) |->
                 [incomes |-> delta(res.months, i, "incomes"),
                  expenses |-> delta(res.months, i, "expenses")]]]

\* the divisions a rendering performed
Divisions(rendering) ==
  {rendering.shares[t] : t \in DOMAIN rendering.shares}
    \cup UNION {{d.incomes[k] : k \in DOMAIN d.incomes} \cup {d.expenses[k] : k \in DOMAIN d.expenses} :
                 d \in {rendering.deltas[i] : i \in DOMAIN rendering.deltas}}

Rendered(u, handler, res, rendering) ==
  Showing(Event(u, handler, res, <<>>, \E d \in Divisions(rendering) : ZeroDivision(d),
                FALSE, "report"),
          rendering)

\* the gateway's answer is drawn when the run starts and waits in "pending";
\* the handler renders it
RenderIncome ==
  /\ pending # <<>>
  /\ Head(pending).kind = "analysis_income"
  /\ last' = Rendered(Head(pending).user, "analysis_type", Head(pending).data,
                      income_report(Head(pending).data))
  /\ pending' = Tail(pending)
  /\ UNCHANGED <<conv, user_data, addsForDraft, resetPending, active, running>>

RenderCompare ==
  /\ pending # <<>>
  /\ Head(pending).kind = "compare_months"
  /\ last' = Rendered(Head(pending).user, "special_reports", Head(pending).data,
                      compare_report(Head(pending).data))
  /\ pending' = Tail(pending)
  /\ UNCHANGED <<conv, user_data, addsForDraft, resetPending, active, running>>

InitReports ==
  /\ InitSessions
  /\ active = OWNER_IDS
  /\ pending \in {<<Update(OWNER, "analysis_income", res)>> : res \in IncomeResponses}
                 \cup {<<Update(OWNER, "compare_months", res)>> : res \in CompareResponses}
  /\ running = <<>>

NextReports ==
  \/ RenderIncome
  \/ RenderCompare

SpecReports == InitReports /\ [][NextReports]_vars

-----------------------------------------------------------------------------
(* C27 *)

\* C27: rendering a report never divides by zero; the income report computes
\* the shares exactly when the backend's total is > 0 and renders the no-data
\* placeholder otherwise; the month comparison appends a delta to a month's
\* value exactly when the month is not the first and the previous month's
\* value is > 0
C27_NoDivisionByZero ==
  /\ last.handler \in {"analysis_type", "special_reports"} => ~last.raised
  /\ last.handler = "analysis_type"
       => /\ last.shown.placeholder <=> ~(last.data.total > 0)
          /\ last.data.total > 0
               => \A t \in ReportPaymentTypes :
                    last.shown.shares[t] = Div(last.data.by_type[t], last.data.total)
  /\ last.handler = "special_reports"
       => \A i \in 1..Len(last.data.months) :
          \A field \in {"incomes", "expenses"} :
            (last.shown.deltas[i][field] # None)
              <=> (i > 1 /\ last.data.months[i - 1][field] > 0)

\* a comparison whose second month follows a month without incomes and with
\* expenses: the expenses carry a delta, the incomes none
C27_Witness ==
  /\ last.handler = "special_reports"
  /\ Len(last.data.months) >= 2
  /\ last.data.months[1].incomes = 0
  /\ last.shown.deltas[2].incomes = None
  /\ last.shown.deltas[2].expenses # None

-----------------------------------------------------------------------------
(* C28, C29 *)

\* the requests with command cmd that the update being processed sends
SentNow(cmd) == {last'.reqs[i] : i \in {j \in 1..Len(last'.reqs) : last'.reqs[j].cmd = cmd}}

\* C28: the edit button is accepted in ST_DEBTS_CHOOSE_TYPE only when a debt
\* type has been selected, and every set_debts request carries the debt type the
\* session holds from a selection, never the default
C28_SetDebtsCarriesSelectedType ==
  [][/\ (last'.handler = "debts_edit_start" /\ last'.reply # "deny")
          => Get(user_data[last'.user], "debt_type") # None
     /\ \A r \in SentNow("set_debts") :
          Get(user_data[last'.user], "debt_type") = Some(r.params.debt_type)]_vars

\* C29: every set_balance request carries the balance type the session holds
\* from the selection that opened the amount prompt, never the default
C29_SetBalanceCarriesSelectedType ==
  [][\A r \in SentNow("set_balance") :
       Get(user_data[last'.user], "balance_payment_type") = Some(r.params.payment_type)]_vars

-----------------------------------------------------------------------------
(* C30 *)

\* /start from user u, answered by a responsive gateway, ending in the menu
ResetToMenu(u) == cmd_start(u, {}) /\ Atomic /\ conv'[u] = ST_MENU

\* C30: no state of an allowed user's session is a dead end: in every reachable
\* state a reset answered by a responsive gateway is accepted and leads to the
\* menu, and every reset whose gateway reads succeed ends in the menu
C30_NoDeadEnd ==
  /\ [](\A u \in active : is_allowed(u) => ENABLED ResetToMenu(u))
  /\ [][(last'.handler = "cmd_start" /\ last'.reply # "deny" /\ ~last'.raised)
          => conv'[last'.user] = ST_MENU]_vars

\* a reset sent in the middle of a flow has ended in the menu
C30_Witness ==
  /\ last.handler = "cmd_start"
  /\ ~last.raised
  /\ resetPending[last.user]
  /\ conv[last.user] = ST_MENU

-----------------------------------------------------------------------------
(* C31 *)

\* the states that wait for a text or for a payment selection
PromptStates == {ST_AMOUNT, ST_PAYMENT_TYPE, ST_COMMENT, ST_BALANCE_EDIT, ST_DEBTS_EDIT}

working_message_id(u) == Get(user_data[u], "working_message_id")

\* C31: while a session waits in a prompt state, working_message_id holds the
\* message that shows the prompt; once a finalizing handler or a back to the
\* menu has rendered the menu, working_message_id is cleared
C31_PromptHasWorkingMessage ==
  /\ \A u \in Users : conv[u] \in PromptStates => working_message_id(u) # None
  /\ (last.menu /\ (last.handler \in {"comment_skip", "comment_received",
                                      "balance_edit_received", "debts_edit_received"}
                    \/ last.data = <<"back", "menu">>))
       => working_message_id(last.user) = None

-----------------------------------------------------------------------------
(* C32 *)

\* the add requests of the last update whose type is income
IncomeAdds ==
  {last.reqs[i].params : i \in {j \in 1..Len(last.reqs) :
     last.reqs[j].cmd = "add" /\ last.reqs[j].params.type = Some("dohod")}}

\* C32: every add request of type income carries payment_type equal to its
\* category, and a draft of type income is never in ST_PAYMENT_TYPE nor
\* handled by payment_type_selected
C32_IncomePaymentIsCategory ==
  /\ \A p \in IncomeAdds : p.payment_type # None /\ p.payment_type = p.category
  /\ \A u \in Users : conv[u] = ST_PAYMENT_TYPE => Get(draft(u), "type") # Some("dohod")
  /\ last.handler = "payment_type_selected" => Get(draft(last.user), "type") # Some("dohod")

\* an income entry has been saved
C32_Witness ==
  /\ IncomeAdds # {}
  /\ last.reply = "saved"
  /\ conv[last.user] = ST_MENU

====
